---- MODULE Spec2Model ----
(***************************************************************************)
(* Model of the API agent: the HTTP tools (src/tools/api_tool.py), the     *)
(* SessionManager and the Agent orchestration (src/agent.py).              *)
(*                                                                         *)
(* Python values are encoded as follows.  An Optional[T] is a sequence of  *)
(* length at most one: None is <<>> and a present value v is <<v>>.  A     *)
(* Python list is a sequence, a dict or a pydantic model is a record.  A   *)
(* call that may raise is a record with a field `raised`.  The timestamp   *)
(* fields (datetime.now defaults) are read by no operation and are left    *)
(* out.                                                                    *)
(***************************************************************************)
EXTENDS Integers, Sequences, FiniteSets, TLC

VARIABLES
    max_exchanges,          \* SessionManager.max_exchanges
    conversation_history,   \* SessionManager.conversation_history
    added,                  \* history variable: exchanges passed to add_exchange since construction / clear
    ret,                    \* return value of the last session query (Optional)
    response,               \* AgentResponse returned by the last Agent.run (Optional)
    propagated,             \* exception that left the last Agent / SessionManager call (Optional)
    history_before,         \* conversation_history when the last run / clear_session was entered
    engine_input,           \* dict handed to agent_executor.invoke by the last run (Optional)
    invocations,            \* number of agent_executor.invoke calls made by the last run
    trace,                  \* intermediate steps the executor took inside the last invoke
    result,                 \* dict returned by the last invoke (Optional)
    caught,                 \* exception caught by the handler of the last run (Optional)
    request,                \* arguments of the last direct tool call (Optional)
    net,                    \* what the network did for that call (Optional)
    outcome,                \* APIResponse returned by that call (Optional)
    tool_raised,            \* exception that left that call (Optional)
    attempts,               \* calls of requests.get / requests.post made by that call
    lastOp                  \* name of the operation that produced this state

vars == <<max_exchanges, conversation_history, added, ret, response, propagated,
          history_before, engine_input, invocations, trace, result, caught,
          request, net, outcome, tool_raised, attempts, lastOp>>

None == <<>>
Some(v) == <<v>>
IsNone(o) == Len(o) = 0
IsSome(o) == Len(o) = 1
Val(o) == o[1]

Min(a, b) == IF a < b THEN a ELSE b
Max(a, b) == IF a < b THEN b ELSE a

(***************************************************************************)
(* Bounds of the model.                                                    *)
(***************************************************************************)
MaxCap == 2         \* largest configured max_exchanges explored
MaxAdds == 4        \* direct add_exchange calls between two clears
MaxTraceLen == 2    \* length up to which every tool-call script is explored
MaxLongAdds == 7    \* exchanges added to a session of large capacity

(***************************************************************************)
(* src/tools/api_tool.py                                                   *)
(***************************************************************************)

\* The servers' replies: HTTP status lines and bodies.
Statuses == {200, 201, 300, 404, 500, 503}
JsonObjectBody == "{\"id\": 1}"
JsonNullBody == "null"
HtmlBody == "<html>"
EmptyBody == ""
Bodies == {JsonObjectBody, JsonNullBody, HtmlBody, EmptyBody}

\* What the network does with one request: no reply at all, or a reply.
ConnectionFailure == [kind |-> "connection_error", status_code |-> 0, body |-> EmptyBody]
ReadTimeout == [kind |-> "timeout", status_code |-> 0, body |-> EmptyBody]
Reply(s, b) == [kind |-> "reply", status_code |-> s, body |-> b]
Replies == {Reply(s, b) : s \in Statuses, b \in Bodies}
NetBehaviours == {ConnectionFailure, ReadTimeout} \cup Replies

Urls == {"https://api.test/items", "https://api.test/users", "api.test"}
HasScheme(url) == url # "api.test"
HeaderValues == {None, Some([Accept |-> "application/json"])}
Payloads == {[name |-> "x"]}

\* requests.exceptions.RequestException and subclasses: __init__ keeps the
\* response it was given, None by default.
RequestException(cls, msg, resp) ==
    [cls |-> cls, msg |-> msg, is_request_exception |-> TRUE, response |-> resp]

Returned(v) == [raised |-> FALSE, value |-> Some(v), exc |-> None]
Raised(e) == [raised |-> TRUE, value |-> None, exc |-> Some(e)]

\* requests.get / requests.post with timeout=10: one HTTP attempt.
timeout == 10
requests_request(method, url, headers, json, n) ==
    IF ~HasScheme(url)
    THEN Raised(RequestException("MissingSchema", "Invalid URL: No scheme supplied", None))
    ELSE IF n.kind = "connection_error"
    THEN Raised(RequestException("ConnectionError", "Connection refused", None))
    ELSE IF n.kind = "timeout"
    THEN Raised(RequestException("ReadTimeout", "Read timed out. (read timeout=10)", None))
    ELSE Returned([status_code |-> n.status_code, body |-> n.body])

\* Response.raise_for_status: HTTPError, carrying the response, for 4xx and 5xx.
raise_for_status(resp) ==
    IF 400 <= resp.status_code /\ resp.status_code < 500
    THEN Raised(RequestException("HTTPError", "Client Error for url", Some(resp)))
    ELSE IF 500 <= resp.status_code /\ resp.status_code < 600
    THEN Raised(RequestException("HTTPError", "Server Error for url", Some(resp)))
    ELSE Returned(TRUE)

\* json.loads on the body text: the parsed Python value (None for null).
json_loads(body) ==
    IF body = JsonObjectBody THEN [ok |-> TRUE, value |-> Some([id |-> 1])]
    ELSE IF body = JsonNullBody THEN [ok |-> TRUE, value |-> None]
    ELSE [ok |-> FALSE, value |-> None]

\* Response.json: requests.exceptions.JSONDecodeError (a RequestException,
\* built without the response) when the body does not parse.
response_json(resp) ==
    LET j == json_loads(resp.body)
    IN  IF j.ok
        THEN [raised |-> FALSE, value |-> j.value, exc |-> None]
        ELSE Raised(RequestException("JSONDecodeError", "Expecting value: line 1 column 1 (char 0)", None))

APIResponse(success, status_code, data, error, url, method) ==
    [success |-> success, status_code |-> status_code, data |-> data,
     error |-> error, url |-> url, method |-> method]

\* getattr(e.response, 'status_code', None) if hasattr(e, 'response') else None
exception_status(e) ==
    IF IsNone(e.response) THEN None ELSE Some(Val(e.response).status_code)

\* except requests.exceptions.RequestException as e: ...
api_except(e, url, method) ==
    IF e.is_request_exception
    THEN Returned(APIResponse(FALSE, exception_status(e), None, Some(e.msg), url, method))
    ELSE Raised(e)

\* The try block shared by get_api_request and post_api_request.
api_try(method, url, headers, json, n) ==
    LET sent == requests_request(method, url, headers, json, n)
    IN  IF sent.raised THEN api_except(Val(sent.exc), url, method)
        ELSE LET resp == Val(sent.value)
                 checked == raise_for_status(resp)
             IN  IF checked.raised THEN api_except(Val(checked.exc), url, method)
                 ELSE LET parsed == response_json(resp)
                      IN  IF parsed.raised THEN api_except(Val(parsed.exc), url, method)
                          ELSE Returned(APIResponse(TRUE, Some(resp.status_code),
                                                    parsed.value, None, url, method))

\* The same with the try block run a second time after a failure outcome.
api_request_retries(method, url, headers, json, n) ==
    LET first == api_try(method, url, headers, json, n)
        again == api_try(method, url, headers, json, n)
    IN  IF ~first.raised /\ ~Val(first.value).success
        THEN [raised |-> again.raised, value |-> again.value, exc |-> again.exc, attempts |-> 2]
        ELSE [raised |-> first.raised, value |-> first.value, exc |-> first.exc, attempts |-> 1]

\* One tool call: its try block runs once, so requests.get / requests.post
\* is called once.
api_request(method, url, headers, json, n) ==
    LET done == api_try(method, url, headers, json, n)
    IN  [raised |-> done.raised, value |-> done.value, exc |-> done.exc, attempts |-> 1]

get_api_request(url, headers, n) == api_request("GET", url, headers, None, n)

post_api_request(url, data, headers, n) == api_request("POST", url, headers, Some(data), n)

(***************************************************************************)
(* src/agent.py: SessionContext and SessionManager                         *)
(***************************************************************************)

\* Python values whose type pydantic validates: a str, or anything else
\* (here the list of content parts a chat model may return as content).
Str(s) == [type |-> "str", text |-> s]
ContentParts(s) == [type |-> "list", text |-> s]

PyException(cls, msg) == [cls |-> cls, msg |-> msg, is_exception |-> TRUE]
str(e) == e.msg

\* SessionContext(...): pydantic rejects an agent_response that is no str.
SessionContext(user_input, agent_response, tools_used, api_calls) ==
    IF agent_response.type = "str"
    THEN Returned([user_input |-> user_input, agent_response |-> agent_response.text,
                   tools_used |-> tools_used, api_calls |-> api_calls])
    ELSE Raised(PyException("ValidationError",
                            "1 validation error for SessionContext agent_response"))

\* conversation_history.append(exchange), then pop(0) when over max_exchanges.
append_and_trim(history, cap, exchange) ==
    LET appended == Append(history, exchange)
    IN  IF Len(appended) > cap THEN Tail(appended) ELSE appended

\* SessionManager.add_exchange: the history afterwards, or the exception.
add_exchange(history, cap, user_input, agent_response, tools_used, api_calls) ==
    LET exchange == SessionContext(user_input, agent_response, tools_used, api_calls)
    IN  IF exchange.raised
        THEN [raised |-> TRUE, exc |-> exchange.exc, history |-> history]
        ELSE [raised |-> FALSE, exc |-> None,
              history |-> append_and_trim(history, cap, Val(exchange.value))]

\* "\n".join(parts)
RECURSIVE join(_)
join(parts) ==
    IF parts = <<>> THEN ""
    ELSE IF Len(parts) = 1 THEN parts[1]
    ELSE parts[1] \o "\n" \o join(Tail(parts))

\* The loop appending a "User: ..." and an "Agent: ..." line per exchange.
RECURSIVE context_parts(_)
context_parts(exchanges) ==
    IF exchanges = <<>> THEN <<>>
    ELSE <<"User: " \o exchanges[1].user_input,
           "Agent: " \o exchanges[1].agent_response>> \o context_parts(Tail(exchanges))

\* history[:n], the oldest n exchanges instead of the newest.
last_n_oldest(history, n) == SubSeq(history, 1, Min(n, Len(history)))

\* history[-n:]
last_n(history, n) == SubSeq(history, Max(1, Len(history) - n + 1), Len(history))

recent_window == 5

get_context_summary(history) ==
    IF history = <<>> THEN ""
    ELSE join(context_parts(last_n(history, recent_window)))

get_full_context(history) ==
    IF history = <<>> THEN ""
    ELSE join(context_parts(history))

\* conversation_history.pop(0) instead of conversation_history.clear().
clear_session_pops(history) == IF history = <<>> THEN <<>> ELSE Tail(history)

clear_session(history) == <<>>

\* A Python number that need not be an integer: the quotient num / den.
Quotient(num, den) == [num |-> num, den |-> den]

\* a / b
truediv(a, b) ==
    IF b = 0 THEN Raised(PyException("ZeroDivisionError", "division by zero"))
    ELSE Returned(Quotient(a, b))

\* sum(len(exchange.user_input) + len(exchange.agent_response) for exchange in ...)
RECURSIVE total_chars(_)
total_chars(history) ==
    IF history = <<>> THEN 0
    ELSE Len(history[1].user_input) + Len(history[1].agent_response)
         + total_chars(Tail(history))

session_stats(history, cap, average) ==
    IF average.raised THEN Raised(Val(average.exc))
    ELSE Returned([exchanges_count |-> Len(history),
                   total_characters |-> total_chars(history),
                   average_exchange_length |-> Val(average.value),
                   max_exchanges |-> cap])

\* The same without the `if self.conversation_history else 0`.
get_session_stats_unguarded(history, cap) ==
    session_stats(history, cap, truediv(total_chars(history), Len(history)))

get_session_stats(history, cap) ==
    session_stats(history, cap,
                  IF history # <<>> THEN truediv(total_chars(history), Len(history))
                  ELSE Returned(Quotient(0, 1)))

(***************************************************************************)
(* src/agent.py: the AgentExecutor as Agent.__init__ configures it         *)
(* (max_iterations=10, every other option at its default) and Agent.run.   *)
(***************************************************************************)

model_name == "gemini-2.0-flash-001"
ToolNames == {"get_api_request", "post_api_request"}

max_iterations == 10

\* AgentExecutor options the constructor call leaves at their defaults:
\* the steps are not returned, and the loop is stopped by force at the cap.
return_intermediate_steps == FALSE
StoppedOutput == "Agent stopped due to iteration limit or time limit."

\* One tool call the chat model asks for, with what the network then does.
ToolCall(tool, url, n) == [tool |-> tool, url |-> url, net |-> n]

\* The tool the executor runs for a call (self.tools).
run_tool(call) ==
    IF call.tool = "get_api_request"
    THEN get_api_request(call.url, None, call.net)
    ELSE post_api_request(call.url, [name |-> "x"], None, call.net)

\* The executor's loop.  script.calls are the tool calls the chat model asks
\* for, one per iteration; script.then is what it does after them: finish
\* with an output or fail.  The loop stops planning once `iterations` reaches
\* max_iterations and then returns the stopped response.
RECURSIVE executor_loop(_, _, _)

\* The rest of one iteration, once the tool has run.
executor_observe(script, iterations, steps, call, observation) ==
    IF observation.raised
    THEN [raised |-> TRUE,
          exc |-> Some(PyException(Val(observation.exc).cls, Val(observation.exc).msg)),
          output |-> Str(""), steps |-> steps]
    ELSE executor_loop(script, iterations + 1,
                       Append(steps, <<[tool |-> call.tool], Val(observation.value)>>))

executor_loop(script, iterations, steps) ==
    IF iterations >= max_iterations
    THEN [raised |-> FALSE, exc |-> None, output |-> Str(StoppedOutput), steps |-> steps]
    ELSE IF iterations >= Len(script.calls)
    THEN IF script.then.kind = "finish"
         THEN [raised |-> FALSE, exc |-> None, output |-> script.then.output, steps |-> steps]
         ELSE [raised |-> TRUE, exc |-> Some(script.then.exc), output |-> Str(""), steps |-> steps]
    ELSE executor_observe(script, iterations, steps, script.calls[iterations + 1],
                          run_tool(script.calls[iterations + 1]))

\* AgentExecutor._return: the outputs, with the steps only when asked for.
executor_return(output, steps) ==
    IF return_intermediate_steps
    THEN [output |-> output, intermediate_steps |-> steps]
    ELSE [output |-> output]

executor_result(looped) ==
    IF looped.raised
    THEN [raised |-> TRUE, exc |-> looped.exc, value |-> None, steps |-> looped.steps]
    ELSE [raised |-> FALSE, exc |-> None,
          value |-> Some(executor_return(looped.output, looped.steps)),
          steps |-> looped.steps]

\* self.agent_executor.invoke(input_with_context)
executor_invoke(inputs, script) == executor_result(executor_loop(script, 0, <<>>))

\* The record appended to api_calls for a step whose result is an APIResponse.
api_call_record(tool_name, observation) ==
    [tool |-> tool_name, url |-> observation.url, method |-> observation.method,
     success |-> observation.success, status_code |-> observation.status_code]

\* The loop over result["intermediate_steps"], from step i on.
RECURSIVE extract_steps(_, _, _, _)
extract_steps(steps, i, tools_used, api_calls) ==
    IF i > Len(steps)
    THEN [raised |-> FALSE, exc |-> None, tools_used |-> tools_used, api_calls |-> api_calls]
    ELSE LET step == steps[i]
         IN  IF Len(step) >= 2
             THEN LET tool_name == IF "tool" \in DOMAIN step[1] THEN step[1].tool ELSE "action"
                      used == Append(tools_used, tool_name)
                  IN  IF {"success", "url"} \subseteq DOMAIN step[2]
                      THEN IF {"method", "status_code"} \subseteq DOMAIN step[2]
                           THEN extract_steps(steps, i + 1, used,
                                              Append(api_calls, api_call_record(tool_name, step[2])))
                           ELSE [raised |-> TRUE,
                                 exc |-> Some(PyException("AttributeError", "object has no attribute")),
                                 tools_used |-> used, api_calls |-> api_calls]
                      ELSE extract_steps(steps, i + 1, used, api_calls)
             ELSE extract_steps(steps, i + 1, tools_used, api_calls)

\* if "intermediate_steps" in result: ...
extract_telemetry(res) ==
    IF "intermediate_steps" \in DOMAIN res
    THEN extract_steps(res.intermediate_steps, 1, <<>>, <<>>)
    ELSE [raised |-> FALSE, exc |-> None, tools_used |-> <<>>, api_calls |-> <<>>]

AgentResponse(success, message, tools_used, api_calls, error, metadata) ==
    [success |-> success, message |-> message, tools_used |-> tools_used,
     api_calls |-> api_calls, error |-> error, metadata |-> metadata]

response_metadata(input_text, history) ==
    [input |-> input_text, model |-> model_name, context_exchanges |-> Len(history)]

\* The list passed on as it is, without the `if xs else None`.
or_none_keeps_empty(xs) == Some(xs)

\* `xs if xs else None`
or_none(xs) == IF xs # <<>> THEN Some(xs) ELSE None

FailureNotice == "An error occurred while processing your request"

\* What a call of Agent.run leaves behind.
RunOutcome(resp, exc_out, history, inputs, calls, steps, res, exc_caught) ==
    [response |-> resp, propagated |-> exc_out, history |-> history,
     engine_input |-> inputs, invocations |-> calls, trace |-> steps,
     result |-> res, caught |-> exc_caught]

\* Mutant of run_except: the handler puts the exception text in `message`.
run_except_message_is_error(e, input_text, tools_used, api_calls, history, inputs, calls, steps, res) ==
    RunOutcome(Some(AgentResponse(FALSE, str(e), or_none(tools_used),
                                  or_none(api_calls), Some(str(e)),
                                  response_metadata(input_text, history))),
               None, history, inputs, calls, steps, res, Some(e))

\* Mutant of run_except: the handler catches pydantic's errors only when
\* they are not validation errors (`except` on too narrow a class).
run_except_narrow(e, input_text, tools_used, api_calls, history, inputs, calls, steps, res) ==
    IF e.cls # "ValidationError"
    THEN RunOutcome(Some(AgentResponse(FALSE, FailureNotice, or_none(tools_used),
                                       or_none(api_calls), Some(str(e)),
                                       response_metadata(input_text, history))),
                    None, history, inputs, calls, steps, res, Some(e))
    ELSE RunOutcome(None, Some(e), history, inputs, calls, steps, res, None)

\* except Exception as e: return AgentResponse(success=False, ...)
run_except(e, input_text, tools_used, api_calls, history, inputs, calls, steps, res) ==
    IF e.is_exception
    THEN RunOutcome(Some(AgentResponse(FALSE, FailureNotice, or_none(tools_used),
                                       or_none(api_calls), Some(str(e)),
                                       response_metadata(input_text, history))),
                    None, history, inputs, calls, steps, res, Some(e))
    ELSE RunOutcome(None, Some(e), history, inputs, calls, steps, res, None)

\* return AgentResponse(success=True, message=result["output"], ...)
run_success(res, input_text, tools_used, api_calls, history, inputs, calls, steps) ==
    RunOutcome(Some(AgentResponse(TRUE, res.output.text, or_none(tools_used),
                                  or_none(api_calls), None,
                                  response_metadata(input_text, history))),
               None, history, inputs, calls, steps, Some(res), None)

\* self.session_manager.add_exchange(...) and the return that follows it.
run_update(res, telemetry, input_text, inputs, steps, updated) ==
    IF updated.raised
    THEN run_except(Val(updated.exc), input_text, telemetry.tools_used,
                    telemetry.api_calls, updated.history, inputs, 1, steps, Some(res))
    ELSE run_success(res, input_text, telemetry.tools_used, telemetry.api_calls,
                     updated.history, inputs, 1, steps)

\* Mutant of run_extract: context_exchanges is taken before add_exchange.
run_extract_counts_before(history, cap, res, input_text, inputs, steps, telemetry) ==
    IF telemetry.raised
    THEN run_except(Val(telemetry.exc), input_text, telemetry.tools_used,
                    telemetry.api_calls, history, inputs, 1, steps, Some(res))
    ELSE LET updated == add_exchange(history, cap, input_text, res.output,
                                     Some(telemetry.tools_used), Some(telemetry.api_calls))
         IN  IF updated.raised
             THEN run_except(Val(updated.exc), input_text, telemetry.tools_used,
                             telemetry.api_calls, updated.history, inputs, 1, steps, Some(res))
             ELSE RunOutcome(Some(AgentResponse(TRUE, res.output.text,
                                                or_none(telemetry.tools_used),
                                                or_none(telemetry.api_calls), None,
                                                response_metadata(input_text, history))),
                             None, updated.history, inputs, 1, steps, Some(res), None)

\* The telemetry loop and what follows it.
run_extract(history, cap, res, input_text, inputs, steps, telemetry) ==
    IF telemetry.raised
    THEN run_except(Val(telemetry.exc), input_text, telemetry.tools_used,
                    telemetry.api_calls, history, inputs, 1, steps, Some(res))
    ELSE run_update(res, telemetry, input_text, inputs, steps,
                    add_exchange(history, cap, input_text, res.output,
                                 Some(telemetry.tools_used), Some(telemetry.api_calls)))

\* Mutant of run_invoke: a failed invocation is recorded in the history too.
run_invoke_records_failure(history, cap, input_text, inputs, invoked) ==
    IF invoked.raised
    THEN run_except(Val(invoked.exc), input_text, <<>>, <<>>,
                    append_and_trim(history, cap,
                                    [user_input |-> input_text, agent_response |-> FailureNotice,
                                     tools_used |-> Some(<<>>), api_calls |-> Some(<<>>)]),
                    inputs, 1, invoked.steps, None)
    ELSE run_extract(history, cap, Val(invoked.value), input_text, inputs,
                     invoked.steps, extract_telemetry(Val(invoked.value)))

\* result = self.agent_executor.invoke(input_with_context) and what follows it.
run_invoke(history, cap, input_text, inputs, invoked) ==
    IF invoked.raised
    THEN run_except(Val(invoked.exc), input_text, <<>>, <<>>, history,
                    inputs, 1, invoked.steps, None)
    ELSE run_extract(history, cap, Val(invoked.value), input_text, inputs,
                     invoked.steps, extract_telemetry(Val(invoked.value)))

\* The try block, from the context fetch on.
run_context(history, cap, input_text, script, input_with_context) ==
    run_invoke(history, cap, input_text, Some(input_with_context),
               executor_invoke(input_with_context, script))

\* Mutant of run: the engine is handed get_full_context.
run_with_full_context(history, cap, input_text, script) ==
    run_context(history, cap, input_text, script,
                [input |-> input_text, context |-> get_full_context(history)])

\* The dict Agent.get_session_info returns: the statistics and
\* (exchanges_count / max_exchanges) * 100.
session_info(stats, usage) ==
    IF usage.raised THEN Raised(Val(usage.exc))
    ELSE Returned([exchanges_count |-> stats.exchanges_count,
                   total_characters |-> stats.total_characters,
                   average_exchange_length |-> stats.average_exchange_length,
                   max_exchanges |-> stats.max_exchanges,
                   context_usage_percent |->
                       Quotient(Val(usage.value).num * 100, Val(usage.value).den)])

get_session_info(history, cap) ==
    LET stats == get_session_stats(history, cap)
    IN  IF stats.raised THEN Raised(Val(stats.exc))
        ELSE session_info(Val(stats.value),
                          truediv(Val(stats.value).exchanges_count,
                                  Val(stats.value).max_exchanges))

\* Agent.run(input_text), the chat model following `script`.
run(history, cap, input_text, script) ==
    run_context(history, cap, input_text, script,
                [input |-> input_text, context |-> get_context_summary(history)])

(***************************************************************************)
(* Inputs explored.                                                        *)
(***************************************************************************)
Capacities == -1 .. MaxCap

\* Capacities above the window of get_context_summary: the smallest one,
\* and the default of --max-exchanges.
default_max_exchanges == 50
LongCapacities == {recent_window + 1, default_max_exchanges}

Inputs == {"hi", "list users"}
SessionResponses == {"Here are the users"}
SessionTools == {None, Some(<<"get_api_request">>)}

EngineUrl == "https://api.test/items"
EngineNets == {Reply(200, JsonObjectBody), Reply(404, HtmlBody)}
EngineCalls == {ToolCall(t, EngineUrl, n) : t \in ToolNames, n \in EngineNets}

Finish(output) == [kind |-> "finish", output |-> output, exc |-> PyException("", "")]
Fail(e) == [kind |-> "raise", output |-> Str(""), exc |-> e]
Endings == {Finish(Str("Done")), Finish(ContentParts("Done")),
            Fail(PyException("ResourceExhausted", "429 Quota exceeded"))}

\* Every sequence of calls up to MaxTraceLen, and one call repeated up to
\* one more time than the executor allows.
CallSequences ==
    (UNION {[1 .. k -> EngineCalls] : k \in 0 .. MaxTraceLen})
    \cup {[i \in 1 .. k |-> c] : c \in EngineCalls, k \in 1 .. max_iterations + 1}
Scripts == {[calls |-> cs, then |-> e] : cs \in CallSequences, e \in Endings}

\* Turns without tool calls, for sessions of large capacity.
LongScripts == {[calls |-> <<>>, then |-> e] : e \in Endings}

(***************************************************************************)
(* State machine.                                                          *)
(***************************************************************************)
NoTurnRecord ==
    /\ response' = None
    /\ engine_input' = None /\ invocations' = 0 /\ trace' = <<>>
    /\ result' = None /\ caught' = None

NoRunRecord == NoTurnRecord /\ propagated' = None /\ history_before' = <<>>

NoToolRecord ==
    /\ request' = None /\ net' = None /\ outcome' = None
    /\ tool_raised' = None /\ attempts' = 0

\* A freshly constructed SessionManager and Agent, nothing called yet.
NothingCalled ==
    /\ conversation_history = <<>>
    /\ added = <<>>
    /\ ret = None
    /\ response = None /\ propagated = None /\ history_before = <<>>
    /\ engine_input = None /\ invocations = 0 /\ trace = <<>>
    /\ result = None /\ caught = None
    /\ request = None /\ net = None /\ outcome = None
    /\ tool_raised = None /\ attempts = 0
    /\ lastOp = "init"

Init == max_exchanges \in Capacities /\ NothingCalled

InitLong == max_exchanges \in LongCapacities /\ NothingCalled

\* session_manager.add_exchange(user_input, agent_response, tools_used)
AddExchangeOf(tool_lists) ==
    \E user_input \in Inputs, agent_response \in SessionResponses, tools_used \in tool_lists :
        \E exchange \in {SessionContext(user_input, Str(agent_response), tools_used, None)},
           updated \in {add_exchange(conversation_history, max_exchanges, user_input,
                                     Str(agent_response), tools_used, None)} :
            /\ conversation_history' = updated.history
            /\ added' = Append(added, Val(exchange.value))
            /\ ret' = None
            /\ lastOp' = "add_exchange"
            /\ NoRunRecord /\ NoToolRecord
            /\ UNCHANGED max_exchanges

AddExchange ==
    /\ Len(added) < MaxAdds
    /\ AddExchangeOf(SessionTools)

\* The same call on a session of large capacity, tools_used left at None.
AddExchangeLong ==
    /\ Len(added) < MaxLongAdds
    /\ AddExchangeOf({None})

\* session_manager.clear_session(), also reached through Agent.clear_session
ClearSession ==
    /\ conversation_history' = clear_session(conversation_history)
    /\ added' = <<>>
    /\ ret' = None
    /\ lastOp' = "clear_session"
    /\ history_before' = conversation_history
    /\ propagated' = None
    /\ NoTurnRecord /\ NoToolRecord
    /\ UNCHANGED max_exchanges

\* The same with the history cut down to the window it renders.
GetContextSummaryTrims ==
    /\ ret' = Some(get_context_summary(conversation_history))
    /\ conversation_history' = last_n(conversation_history, recent_window)
    /\ lastOp' = "get_context_summary"
    /\ NoRunRecord /\ NoToolRecord
    /\ UNCHANGED <<max_exchanges, added>>

GetContextSummary ==
    /\ ret' = Some(get_context_summary(conversation_history))
    /\ lastOp' = "get_context_summary"
    /\ NoRunRecord /\ NoToolRecord
    /\ UNCHANGED <<max_exchanges, conversation_history, added>>

GetFullContext ==
    /\ ret' = Some(get_full_context(conversation_history))
    /\ lastOp' = "get_full_context"
    /\ NoRunRecord /\ NoToolRecord
    /\ UNCHANGED <<max_exchanges, conversation_history, added>>

GetSessionStats ==
    \E stats \in {get_session_stats(conversation_history, max_exchanges)} :
        /\ ret' = stats.value
        /\ propagated' = stats.exc
        /\ lastOp' = "get_session_stats"
        /\ history_before' = <<>>
        /\ NoTurnRecord /\ NoToolRecord
        /\ UNCHANGED <<max_exchanges, conversation_history, added>>

\* main.py's loop is back at input("You: "): the last command's return
\* value has been printed and dropped.  An exception that left the command
\* leaves the loop and main with it.
AtPrompt == lastOp \in {"init", "prompt"}

Prompt ==
    /\ ~AtPrompt
    /\ IsNone(propagated)
    /\ lastOp' = "prompt"
    /\ ret' = None
    /\ NoRunRecord /\ NoToolRecord
    /\ UNCHANGED <<max_exchanges, conversation_history, added>>

\* The 'clear' command: Agent.clear_session
AgentClearSession == AtPrompt /\ ClearSession

\* The 'session' command: session_info = agent.get_session_info()
GetSessionInfo ==
    /\ AtPrompt
    /\ \E info \in {get_session_info(conversation_history, max_exchanges)} :
        /\ ret' = info.value
        /\ propagated' = info.exc
        /\ lastOp' = "session"
        /\ history_before' = <<>>
        /\ NoTurnRecord /\ NoToolRecord
        /\ UNCHANGED <<max_exchanges, conversation_history, added>>

\* Any other non-empty line: response = agent.run(user_input)
RunTurn(scripts) ==
    \E input_text \in Inputs, script \in scripts :
        \E out \in {run(conversation_history, max_exchanges, input_text, script)} :
            /\ conversation_history' = out.history
            /\ response' = out.response
            /\ propagated' = out.propagated
            /\ history_before' = conversation_history
            /\ engine_input' = out.engine_input
            /\ invocations' = out.invocations
            /\ trace' = out.trace
            /\ result' = out.result
            /\ caught' = out.caught
            /\ ret' = None
            /\ lastOp' = "run"
            /\ NoToolRecord
            /\ UNCHANGED <<max_exchanges, added>>

Run ==
    /\ AtPrompt
    /\ RunTurn(Scripts)

\* The same on a session of large capacity, up to MaxLongAdds exchanges.
RunLong ==
    /\ AtPrompt
    /\ Len(conversation_history) < MaxLongAdds
    /\ RunTurn(LongScripts)

ToolReturn(call, url, n, done) ==
    /\ request' = Some(call)
    /\ net' = IF HasScheme(url) THEN Some(n) ELSE None
    /\ outcome' = done.value
    /\ tool_raised' = done.exc
    /\ attempts' = done.attempts
    /\ ret' = None
    /\ NoRunRecord
    /\ UNCHANGED <<max_exchanges, conversation_history, added>>

GetApiRequest ==
    \E url \in Urls, headers \in HeaderValues, n \in NetBehaviours :
        /\ ToolReturn([tool |-> "get_api_request", url |-> url, headers |-> headers, data |-> None],
                      url, n, get_api_request(url, headers, n))
        /\ lastOp' = "get_api_request"

PostApiRequest ==
    \E url \in Urls, data \in Payloads, headers \in HeaderValues, n \in NetBehaviours :
        /\ ToolReturn([tool |-> "post_api_request", url |-> url, headers |-> headers,
                       data |-> Some(data)],
                      url, n, post_api_request(url, data, headers, n))
        /\ lastOp' = "post_api_request"

\* The command loop of main.py driving the Agent.
Next == Run \/ AgentClearSession \/ GetSessionInfo \/ Prompt
Spec == Init /\ [][Next]_vars

\* The command loop on a session of large capacity.
NextLong == RunLong \/ AgentClearSession \/ GetSessionInfo \/ Prompt
SpecLong == InitLong /\ [][NextLong]_vars

\* A SessionManager driven directly through its operations.
NextSession ==
    AddExchange \/ ClearSession \/ GetContextSummary \/ GetFullContext \/ GetSessionStats
SpecSession == Init /\ [][NextSession]_vars

\* A SessionManager of large capacity driven directly.
NextSessionLong ==
    AddExchangeLong \/ ClearSession \/ GetContextSummary \/ GetFullContext \/ GetSessionStats
SpecSessionLong == InitLong /\ [][NextSessionLong]_vars

\* The two tools called directly.
NextTool == GetApiRequest \/ PostApiRequest
SpecTool == Init /\ [][NextTool]_vars

(***************************************************************************)
(* Properties.                                                             *)
(***************************************************************************)
RunReturned == lastOp = "run" /\ IsSome(response)
RunFailed == RunReturned /\ ~Val(response).success
RunSucceeded == RunReturned /\ Val(response).success

\* len(xs) of an Optional list, an absent list counting as empty.
OptLen(xs) == IF IsNone(xs) THEN 0 ELSE Len(Val(xs))

\* C1: after every add_exchange and clear_session call, for every configured
\* max_exchanges, the history holds at most max_exchanges exchanges.
C1_HistoryWithinCapacity ==
    lastOp \in {"add_exchange", "clear_session"}
        => Len(conversation_history) <= max_exchanges

\* C2: after n add_exchange calls on a fresh or just cleared SessionManager the
\* history has min(n, max_exchanges) exchanges, and they are the last ones
\* added, in insertion order.
C2_FifoLastAdded ==
    lastOp = "add_exchange"
        => /\ Len(conversation_history) = Min(Len(added), max_exchanges)
           /\ conversation_history
                = SubSeq(added, Len(added) - Len(conversation_history) + 1, Len(added))

\* C3: when Agent.run returns success=false the history is the one the call
\* started with, so get_full_context() does not show the failing turn.
C3_FailedRunKeepsHistory ==
    RunFailed
        => /\ conversation_history = history_before
           /\ get_full_context(conversation_history) = get_full_context(history_before)

\* C3 witness: a run failed, at the history update, on a non-empty history.
C3_Witness ==
    /\ RunFailed
    /\ history_before # <<>>
    /\ Val(caught).cls = "ValidationError"

\* C4: a failed response has the fixed failure notice as message and the text
\* of the caught exception as error; a successful one has the engine's final
\* output as message and no error.
C4_ResponseShape ==
    RunReturned
        => /\ RunFailed
                => /\ Val(response).message = "An error occurred while processing your request"
                   /\ IsSome(caught)
                   /\ Val(response).error = Some(Val(caught).msg)
           /\ RunSucceeded
                => /\ IsSome(result)
                   /\ Val(response).message = Val(result).output.text
                   /\ Val(response).error = None

\* C4 witness: a run failed on the engine's error and reports its text.
C4_Witness ==
    /\ RunFailed
    /\ Val(response).error = Some("429 Quota exceeded")

\* C5: no exception leaves Agent.run; an exception raised inside it is caught
\* and becomes a response with success=false, and the engine is invoked at
\* most once per run.
C5_RunNeverRaises ==
    lastOp = "run"
        => /\ IsNone(propagated)
           /\ IsSome(response)
           /\ IsSome(caught) <=> ~Val(response).success
           /\ invocations <= 1

\* C5 witness: the history update raised inside run after one invocation.
C5_Witness ==
    /\ lastOp = "run"
    /\ IsSome(caught)
    /\ Val(caught).cls = "ValidationError"
    /\ invocations = 1

\* C6: a run in which the executor reaches its iteration cap returns
\* success=false with a non-empty error and leaves the history as it was.
C6_CapSurfacesAsFailure ==
    (lastOp = "run" /\ Len(trace) = max_iterations)
        => /\ RunFailed
           /\ IsSome(Val(response).error)
           /\ Val(Val(response).error) # ""
           /\ conversation_history = history_before

\* Number of steps of a trace whose result has the Call Outcome shape.
RECURSIVE OutcomeSteps(_)
OutcomeSteps(steps) ==
    IF steps = <<>> THEN 0
    ELSE (IF {"success", "url"} \subseteq DOMAIN steps[1][2] THEN 1 ELSE 0)
         + OutcomeSteps(Tail(steps))

\* C7: a successful turn whose reasoning trace has k tool steps, m of them
\* with a Call Outcome, returns tools_used of length k and api_calls of
\* length m.
C7_TelemetryLengths ==
    RunSucceeded
        => /\ OptLen(Val(response).tools_used) = Len(trace)
           /\ OptLen(Val(response).api_calls) = OutcomeSteps(trace)

ToolReturned == lastOp \in {"get_api_request", "post_api_request"} /\ IsSome(outcome)

\* C8: in every Call Outcome, success holds exactly when data is present and
\* error absent, and exactly one of data and error is present.
C8_SuccessIffData ==
    ToolReturned
        => /\ Val(outcome).success <=> (IsSome(Val(outcome).data) /\ IsNone(Val(outcome).error))
           /\ IsSome(Val(outcome).data) # IsSome(Val(outcome).error)

\* The call met a transport failure, a non-2xx status or a body that is no JSON.
NoReply == IsNone(net) \/ Val(net).kind # "reply"
CallFailed ==
    \/ NoReply
    \/ Val(net).status_code < 200
    \/ Val(net).status_code > 299
    \/ Val(net).body \notin {JsonObjectBody, JsonNullBody}

\* C9: a tool call that meets a transport failure, a non-2xx status or a
\* malformed or absent JSON body returns success=false with a non-empty error
\* and no data, and raises nothing.
C9_FailuresAreOutcomes ==
    (lastOp \in {"get_api_request", "post_api_request"} /\ CallFailed)
        => /\ IsNone(tool_raised)
           /\ IsSome(outcome)
           /\ ~Val(outcome).success
           /\ IsSome(Val(outcome).error)
           /\ Val(Val(outcome).error) # ""
           /\ IsNone(Val(outcome).data)

\* C10: a failure Call Outcome carries the HTTP status of the reply when there
\* was one, and no status exactly when there was none.
C10_FailureStatus ==
    (ToolReturned /\ ~Val(outcome).success)
        => Val(outcome).status_code
             = IF NoReply THEN None ELSE Some(Val(net).status_code)


\* The transcript the specification describes: per exchange a "User: " line
\* and an "Agent: " line, oldest first, from exchange i on.
ExchangeText(e) == "User: " \o e.user_input \o "\n" \o "Agent: " \o e.agent_response

RECURSIVE TranscriptFrom(_, _)
TranscriptFrom(history, i) ==
    IF i > Len(history) THEN ""
    ELSE ExchangeText(history[i]) \o (IF i < Len(history) THEN "\n" ELSE "")
         \o TranscriptFrom(history, i + 1)

\* C11: get_context_summary returns the transcript of exactly the last
\* min(N, 5) exchanges of a history of N exchanges, oldest first: the same
\* string as get_full_context for N <= 5, the last 5 exchanges only for
\* N > 5, and the empty string for N = 0.
C11_SummaryIsLastFive ==
    lastOp = "get_context_summary" =>
        LET N == Len(conversation_history)
        IN  /\ ret = Some(TranscriptFrom(conversation_history, N - Min(N, 5) + 1))
            /\ (N <= 5 => ret = Some(get_full_context(conversation_history)))
            /\ (N > 5 => ret # Some(get_full_context(conversation_history)))
            /\ (N = 0 => ret = Some(""))

C11_Witness ==
    /\ lastOp = "get_context_summary"
    /\ Len(conversation_history) > 5
    /\ conversation_history[1].user_input # conversation_history[2].user_input
    /\ ret = Some(TranscriptFrom(conversation_history, Len(conversation_history) - 4))

\* C12: clear_session empties the history in every state and leaves
\* max_exchanges as configured; until the next add_exchange both context
\* queries return the empty string and the statistics count 0 exchanges;
\* a second clear_session in a row changes nothing.
C12_ClearEmpties ==
    [][/\ (lastOp' = "clear_session" =>
               /\ conversation_history' = <<>>
               /\ max_exchanges' = max_exchanges)
       /\ (added' = <<>> =>
               /\ conversation_history' = <<>>
               /\ (lastOp' \in {"get_context_summary", "get_full_context"} => ret' = Some(""))
               /\ (lastOp' = "get_session_stats" =>
                       IsSome(ret') /\ Val(ret').exchanges_count = 0))
       /\ (lastOp = "clear_session" /\ lastOp' = "clear_session" =>
               /\ conversation_history' = conversation_history
               /\ max_exchanges' = max_exchanges)]_vars

C12_Witness ==
    /\ lastOp = "clear_session"
    /\ Len(history_before) >= 2
    /\ conversation_history = <<>>

\* Characters of the exchanges from position i on.
RECURSIVE CharsFrom(_, _)
CharsFrom(history, i) ==
    IF i > Len(history) THEN 0
    ELSE Len(history[i].user_input) + Len(history[i].agent_response)
         + CharsFrom(history, i + 1)

\* C13: get_session_stats returns without fault; exchanges_count is the
\* number of retained exchanges, total_characters the sum of the lengths of
\* user_input and agent_response over the retained exchanges (evicted ones
\* are not counted), average_exchange_length their quotient, or 0 for an
\* empty history, and max_exchanges the configured capacity.
C13_SessionStats ==
    lastOp = "get_session_stats" =>
        /\ IsNone(propagated)
        /\ IsSome(ret)
        /\ LET stats == Val(ret)
                N == Len(conversation_history)
                average == stats.average_exchange_length
           IN  /\ stats.exchanges_count = N
               /\ stats.total_characters = CharsFrom(conversation_history, 1)
               /\ (N > 0 => /\ average.den # 0
                            /\ average.num * N = stats.total_characters * average.den)
               /\ (N = 0 => average.num = 0 /\ average.den # 0)
               /\ stats.max_exchanges = max_exchanges

C13_Witness ==
    /\ lastOp = "get_session_stats"
    /\ IsSome(ret)
    /\ Len(added) > Len(conversation_history)
    /\ Len(conversation_history) = 2
    /\ Val(ret).total_characters = CharsFrom(conversation_history, 1)
    /\ Val(ret).average_exchange_length.den = 2

\* C14: every call of get_api_request or post_api_request makes exactly one
\* HTTP attempt, whatever its outcome: a failed or timed-out request is not
\* tried again.
C14_SingleAttempt ==
    lastOp \in {"get_api_request", "post_api_request"} => attempts = 1

C14_Witness ==
    /\ lastOp = "post_api_request"
    /\ net = Some(ReadTimeout)
    /\ IsSome(outcome) /\ ~Val(outcome).success
    /\ attempts = 1

\* The lists a response reports, an absent one read as the empty list.
Collected(xs) == IF IsNone(xs) THEN <<>> ELSE Val(xs)

\* The exchange a successful turn is to record: the input, the engine's
\* final output and the telemetry the turn collected.
TurnExchange ==
    [user_input |-> Val(engine_input).input,
     agent_response |-> Val(result).output.text,
     tools_used |-> Some(Collected(Val(response).tools_used)),
     api_calls |-> Some(Collected(Val(response).api_calls))]

\* C15: a successful turn appends exactly one exchange, holding the input,
\* the engine's output and the collected telemetry, evicting the oldest one
\* when the capacity is exceeded, and its context_exchanges is the length
\* of the history after that; a failed turn reports the unchanged length.
C15_ExchangeAppended ==
    /\ RunSucceeded =>
           LET appended == Append(history_before, TurnExchange)
           IN  /\ conversation_history =
                      IF Len(appended) > max_exchanges THEN Tail(appended) ELSE appended
               /\ Val(response).metadata.context_exchanges = Len(conversation_history)
    /\ RunFailed =>
           /\ Len(conversation_history) = Len(history_before)
           /\ Val(response).metadata.context_exchanges = Len(history_before)

C15_Witness ==
    /\ RunSucceeded
    /\ max_exchanges = 2
    /\ Len(history_before) = 2
    /\ conversation_history = <<history_before[2], TurnExchange>>
    /\ Val(response).metadata.context_exchanges = 2

\* C16: the context handed to the engine is fetched before the invocation
\* and before the history update: it is the transcript of the last
\* min(N, 5) of the N exchanges recorded before this turn, and the current
\* turn's input travels beside it, not in it.
C16_ContextBeforeTurn ==
    lastOp = "run" =>
        LET N == Len(history_before)
        IN  /\ invocations = 1
            /\ IsSome(engine_input)
            /\ Val(engine_input).context = TranscriptFrom(history_before, N - Min(N, 5) + 1)
            /\ (N = 0 => Val(engine_input).context = "")
            /\ (IsSome(response) => Val(engine_input).input = Val(response).metadata.input)

C16_Witness ==
    /\ RunSucceeded
    /\ Len(history_before) > 5
    /\ history_before[1].user_input # history_before[2].user_input
    /\ conversation_history # history_before
    /\ Val(engine_input).context = TranscriptFrom(history_before, Len(history_before) - 4)

C18_QueriesChangeNothing ==
    [][/\ (lastOp' \in {"get_context_summary", "get_full_context", "get_session_stats"} =>
               /\ conversation_history' = conversation_history
               /\ max_exchanges' = max_exchanges)
       /\ (lastOp' = "add_exchange" =>
               LET kept == SubSeq(conversation_history', 1, Len(conversation_history') - 1)
               IN  /\ max_exchanges' = max_exchanges
                   /\ Len(kept) <= Len(conversation_history)
                   /\ kept = SubSeq(conversation_history,
                                    Len(conversation_history) - Len(kept) + 1,
                                    Len(conversation_history)))]_vars

C18_Witness ==
    /\ lastOp \in {"get_context_summary", "get_full_context", "get_session_stats"}
    /\ IsSome(ret)
    /\ Len(conversation_history) > 5
    /\ Len(added) > Len(conversation_history)

\* C19: in every response the number of api_calls is at most the number of
\* tools_used, which is at most the number of steps of the trace; neither
\* field is ever an empty list: it is absent when nothing was collected,
\* while the exchange recorded for the same turn stores empty lists.
C19_TelemetryShape ==
    RunReturned =>
        LET resp == Val(response)
        IN  /\ OptLen(resp.api_calls) <= OptLen(resp.tools_used)
            /\ OptLen(resp.tools_used) <= Len(trace)
            /\ resp.tools_used # Some(<<>>)
            /\ resp.api_calls # Some(<<>>)
            /\ (resp.success /\ conversation_history # <<>> =>
                   LET recorded == conversation_history[Len(conversation_history)]
                   IN  /\ IsNone(resp.tools_used) => recorded.tools_used = Some(<<>>)
                       /\ IsNone(resp.api_calls) => recorded.api_calls = Some(<<>>))

C19_Witness ==
    /\ RunSucceeded
    /\ Len(trace) = 2
    /\ IsNone(Val(response).tools_used)
    /\ IsNone(Val(response).api_calls)
    /\ Len(conversation_history) > Len(history_before)
    /\ conversation_history[Len(conversation_history)].tools_used = Some(<<>>)

\* C20: for every max_exchanges the command line accepts, the 'session'
\* command's get_session_info returns without fault, and its
\* context_usage_percent is exchanges_count / max_exchanges * 100, a number
\* from 0 to 100.
C20_SessionInfoInRange ==
    lastOp = "session" =>
        /\ IsNone(propagated)
        /\ IsSome(ret)
        /\ LET percent == Val(ret).context_usage_percent
           IN  /\ percent.den # 0
               /\ percent.num * max_exchanges = Len(conversation_history) * 100 * percent.den
               /\ 0 <= percent.num * percent.den
               /\ percent.num * percent.den <= 100 * percent.den * percent.den
====
